---- MODULE Spec2Model ----
(***************************************************************************)
(* Model of price_checker.py: the prices table of pc_parts.db, the clock   *)
(* behind SELECT CURRENT_TIMESTAMP, PriceScraper.get_pricing with its two  *)
(* site extractors, Product.best_price and PCBuild.report_build.           *)
(*                                                                         *)
(* Floats are modelled by naturals that keep their order: a real price is  *)
(* its amount in cents, sys.float_info.max is FloatMax and np.inf is Inf,  *)
(* with every real price < FloatMax < Inf.  Timestamps are seconds.        *)
(* A URL is modelled by what url.split('/') yields, each part given as     *)
(* what part.split('.') yields; None is the empty sequence, which no       *)
(* split can yield.                                                        *)
(***************************************************************************)
EXTENDS Integers, Sequences, FiniteSets, TLC

VARIABLES table, now, last, sess

vars == <<table, now, last, sess>>

\* ------------------------------------------------------------------ bounds

MaxTicks == 3
MaxDelay == 1
MaxInitRows == 2
MaxParts == 2

\* ------------------------------------------------------------------ values

\* if (time_now - time_last).total_seconds() <= 86400
Window == 86400

\* sys.float_info.max, the price of the unsupported-domain branch
FloatMax == 1000000

\* np.inf, the price of an absent URL or an absent page element
Inf == 1000001

\* The real prices (in cents) the pages and the stored records carry.
RealPrices == {750, 1000}

None == <<>>

UrlMicrocenter ==
    << <<"https:">>, <<"">>, <<"www", "microcenter", "com">>, <<"product">>, <<"652626">> >>

UrlAmazon ==
    << <<"https:">>, <<"">>, <<"www", "amazon", "com">>, <<"dp">>, <<"B0BCF57FL5">> >>

\* a retailer get_pricing has no case for
UrlNewegg ==
    << <<"https:">>, <<"">>, <<"www", "newegg", "com">>, <<"p">>, <<"N82E16819118412">> >>

\* 'localhost/item': split('/') has two parts only
UrlNoHost == << <<"localhost">>, <<"item">> >>

WebUrls == {UrlMicrocenter, UrlAmazon, UrlNewegg}

Urls == WebUrls \cup {UrlNoHost}

\* ------------------------------------------------------------------ pages

\* The page the browser holds after self.get(url): whether the 10 s wait for
\* the price element timed out, and what find_elements returns afterwards
\* for id 'pricing' (its content attribute) and for the classes
\* 'a-price-whole' and 'a-price-fraction' (their text).  A decimal text
\* "7.50" is the pair <<7, 50>>.
PageOf(p) ==
    [timedOut |-> FALSE,
     pricing  |-> << <<p \div 100, p % 100>> >>,
     whole    |-> << p \div 100 >>,
     frac     |-> << p % 100 >>]

\* the element never shows up
PageEmpty == [timedOut |-> TRUE, pricing |-> <<>>, whole |-> <<>>, frac |-> <<>>]

\* the whole part is there, the fraction is not
PageNoFrac == [timedOut |-> TRUE, pricing |-> <<>>, whole |-> <<10>>, frac |-> <<>>]

\* the wait times out and the element is there right after
PageLate == [PageOf(750) EXCEPT !.timedOut = TRUE]

Pages == {PageOf(p) : p \in RealPrices} \cup {PageEmpty, PageNoFrac, PageLate}

\* float(text) of a decimal text, in cents
ParseFloat(text) == text[1] * 100 + text[2]

\* ------------------------------------------------------------------ table

Row(url, price, time) == [url |-> url, price |-> price, time |-> time]

NoRow == [url |-> None, price |-> -1, time |-> -1]

RowsOf(t, url) == SelectSeq(t, LAMBDA r : r.url = url)

\* cursor.fetchone() of SELECT ... FROM prices WHERE url=?
FetchOne(t, url) ==
    IF Len(RowsOf(t, url)) = 0 THEN NoRow ELSE RowsOf(t, url)[1]

\* INSERT INTO prices VALUES (?,?,?)
Insert(t, url, price, time) == Append(t, Row(url, price, time))

\* UPDATE prices SET price=?, time=? WHERE url=?
Update(t, url, price, time) ==
    [i \in 1..Len(t) |-> IF t[i].url = url THEN Row(url, price, time) ELSE t[i]]

\* ------------------------------------------------------------------ get_pricing

NoPrice == 0 - 1

\* url.split('/')[2] and domain.split('.')[1] both exist (no IndexError)
HasDomain(url) == Len(url) >= 3 /\ Len(url[3]) >= 2

\* domain = url.split('/')[2]; domain = domain.split('.')[1]
DomainOf(url) == url[3][2]

\* A variant that leaves the boundary second out of the window.
IsFreshStrict(time_now, time_last) == time_now - time_last < Window

\* (time_now - time_last).total_seconds() <= 86400
IsFresh(time_now, time_last) == time_now - time_last <= Window

\* get_microcenter_price: the first 'pricing' element's content, or np.inf
get_microcenter_price(page) ==
    IF Len(page.pricing) = 0 THEN Inf ELSE ParseFloat(page.pricing[1])

\* get_amazon_price: whole + '.' + fraction, or np.inf
get_amazon_price(url, page) ==
    IF url = None THEN Inf
    ELSE IF Len(page.whole) = 0 \/ Len(page.frac) = 0 THEN Inf
    ELSE ParseFloat(<<page.whole[1], page.frac[1]>>)

\* match domain: the extractor called and the price it gives
Fetch(domain, url, page) ==
    CASE domain = "microcenter" ->
            [extractor |-> "microcenter", price |-> get_microcenter_price(page)]
      [] domain = "amazon" ->
            [extractor |-> "amazon", price |-> get_amazon_price(url, page)]
      [] OTHER ->
            [extractor |-> "unsupported", price |-> FloatMax]

\* price.round(2) inside the two f-strings: price is a Python float on every
\* path (float(...), np.inf, sys.float_info.max), and float has no attribute
\* 'round', so formatting the message raises.
RoundPrice(price) == "AttributeError"

\* A variant that commits the statement before the message is formatted.
WriteBackCommitFirst(t, outdated, url, price, time) ==
    [table   |-> IF outdated THEN Update(t, url, price, time)
                 ELSE Insert(t, url, price, time),
     outcome |-> RoundPrice(price)]

\* A variant that commits first and inserts whether or not a row exists.
WriteBackAlwaysInsert(t, outdated, url, price, time) ==
    [table   |-> Insert(t, url, price, time),
     outcome |-> RoundPrice(price)]

\* A variant that commits first and binds price and time the wrong way round.
WriteBackSwapped(t, outdated, url, price, time) ==
    [table   |-> IF outdated THEN Update(t, url, time, price)
                 ELSE Insert(t, url, time, price),
     outcome |-> RoundPrice(price)]

\* with self.sql_conn: UPDATE or INSERT, then the print, then commit().  The
\* statement opens a transaction; an exception leaving the block rolls it
\* back, so the table is as before.
WriteBack(t, outdated, url, price, time) ==
    LET executed == IF outdated THEN Update(t, url, price, time)
                    ELSE Insert(t, url, price, time)
        printed  == RoundPrice(price)
    IN  [table   |-> IF printed = "AttributeError" THEN t ELSE executed,
         outcome |-> IF printed = "AttributeError" THEN printed ELSE "returned"]

\* What one call leaves behind: the table, the clock, how the call ended
\* ("returned" or the exception raised), the value returned, the extractor
\* that ran, the price it produced and the timestamp of line 103.
Result(t, clock, outcome, ret, extractor, extracted, time) ==
    [table |-> t, now |-> clock, outcome |-> outcome, ret |-> ret,
     extractor |-> extractor, extracted |-> extracted, time |-> time]

\* PriceScraper.get_pricing(name, url) with the page the site serves and the
\* seconds that pass between the two CURRENT_TIMESTAMP reads.
get_pricing(t, clock, url, page, delay) ==
    IF url = None THEN
        Result(t, clock, "returned", Inf, "none", NoPrice, -1)
    ELSE IF ~HasDomain(url) THEN
        Result(t, clock, "IndexError", NoPrice, "none", NoPrice, -1)
    ELSE
        LET row == FetchOne(t, url)
        IN  IF row # NoRow /\ IsFresh(clock, row.time) THEN
                Result(t, clock, "returned", row.price, "none", NoPrice, -1)
            ELSE
                LET got  == Fetch(DomainOf(url), url, page)
                    time == clock + delay
                    wb   == WriteBack(t, row # NoRow, url, got.price, time)
                IN  Result(wb.table, time, wb.outcome,
                           IF wb.outcome = "returned" THEN got.price ELSE NoPrice,
                           got.extractor, got.price, time)

\* ------------------------------------------------------------------ state

StartNow == Window + Window

EndNow == StartNow + MaxTicks

InitTimes == {StartNow - Window, StartNow - Window + 1}

\* The prices a stored row may carry: what an extractor can give for the two
\* supported sites, sys.float_info.max for any other.
InitPrices(url) ==
    IF HasDomain(url) /\ DomainOf(url) \in {"microcenter", "amazon"}
    THEN RealPrices \cup {Inf}
    ELSE {FloatMax}

InitRows ==
    UNION {{Row(u, p, s) : p \in InitPrices(u), s \in InitTimes} : u \in WebUrls}

OnePerUrl(t) == \A i, j \in 1..Len(t) : t[i].url = t[j].url => i = j

\* What pc_parts.db may hold when the session opens it: rows of earlier
\* sessions, one per URL, or nothing.
InitTables ==
    {t \in UNION {[1..n -> InitRows] : n \in 0..MaxInitRows} : OnePerUrl(t)}

Sessions == {1, 2}

\* A session between two calls.
Idle == [pc |-> "idle", url |-> None, outdated |-> FALSE, price |-> NoPrice]

NoCall == [op |-> "none"]

Init ==
    /\ table \in InitTables
    /\ now = StartNow
    /\ last = NoCall
    /\ sess = [s \in Sessions |-> Idle]

\* SELECT CURRENT_TIMESTAMP moves on
Tick ==
    /\ now < EndNow
    /\ now' = now + 1
    /\ UNCHANGED <<table, last, sess>>

\* One call of get_pricing from the session.
GetPricing ==
    \E url \in Urls \cup {None}, page \in Pages, delay \in 0..MaxDelay :
        LET r == get_pricing(table, now, url, page, delay)
        IN  /\ r.now <= EndNow
            /\ table' = r.table
            /\ now' = r.now
            /\ last' = [op |-> "get_pricing", url |-> url, before |-> table,
                        time_now |-> now, outcome |-> r.outcome, ret |-> r.ret,
                        extractor |-> r.extractor, extracted |-> r.extracted,
                        time |-> r.time]
            /\ UNCHANGED sess

Next == Tick \/ GetPricing

Spec == Init /\ [][Next]_vars

\* ------------------------------------------------------------------ Product, PCBuild

\* The page each supported URL serves while one best_price or report_build runs.
Webs ==
    {[u \in {UrlMicrocenter, UrlAmazon} |-> page] : page \in {PageOf(750), PageEmpty}}

PageAt(web, url) == IF url \in DOMAIN web THEN web[url] ELSE PageEmpty

Product(name, links) == [name |-> name, links |-> links]

\* Products in the manner of main(): two retailers, no retailer, a retailer
\* without URL between two others, an unlisted retailer only.
Products ==
    {Product("cpu", <<UrlMicrocenter, UrlAmazon>>),
     Product("gpu", <<>>),
     Product("board", <<UrlMicrocenter, None, UrlAmazon>>),
     Product("case", <<UrlNewegg>>)}

\* for link in self.links.values(): from link i on, with min_price so far
\* and the prices get_pricing has returned so far
RECURSIVE BestFrom(_, _, _, _, _, _, _, _)
BestFrom(t, clock, links, i, min_price, yields, web, delay) ==
    IF i > Len(links) THEN
        [table |-> t, now |-> clock, outcome |-> "returned", ret |-> min_price,
         yields |-> yields]
    ELSE
        LET r == get_pricing(t, clock, links[i], PageAt(web, links[i]), delay)
        IN  IF r.outcome # "returned" THEN
                [table |-> r.table, now |-> r.now, outcome |-> r.outcome,
                 ret |-> NoPrice, yields |-> yields]
            ELSE
                BestFrom(r.table, r.now, links, i + 1,
                         IF r.ret < min_price THEN r.ret ELSE min_price,
                         Append(yields, r.ret), web, delay)

\* Product.best_price(driver)
best_price(t, clock, product, web, delay) ==
    BestFrom(t, clock, product.links, 1, Inf, <<>>, web, delay)

\* float addition on the modelled values: anything plus inf is inf, two
\* float maxima overflow to inf, float max absorbs a real price
FloatAdd(a, b) ==
    IF a = Inf \/ b = Inf THEN Inf
    ELSE IF a = FloatMax /\ b = FloatMax THEN Inf
    ELSE IF a = FloatMax \/ b = FloatMax THEN FloatMax
    ELSE a + b

\* for part in self.parts: from part i on, with self.prices (a dict keyed by
\* part.name, kept here as the sequence of best prices) and toal_price so far
RECURSIVE ReportFrom(_, _, _, _, _, _, _, _)
ReportFrom(t, clock, parts, i, prices, toal_price, web, delay) ==
    IF i > Len(parts) THEN
        [table |-> t, now |-> clock, outcome |-> "returned", prices |-> prices,
         total |-> toal_price]
    ELSE
        LET b == best_price(t, clock, parts[i], web, delay)
        IN  IF b.outcome # "returned" THEN
                [table |-> b.table, now |-> b.now, outcome |-> b.outcome,
                 prices |-> prices, total |-> NoPrice]
            ELSE
                ReportFrom(b.table, b.now, parts, i + 1, Append(prices, b.ret),
                           FloatAdd(toal_price, IF b.ret < Inf THEN b.ret ELSE 0),
                           web, delay)

\* PCBuild.report_build(driver, report_file): the rows of the report
report_build(t, clock, parts, web, delay) ==
    ReportFrom(t, clock, parts, 1, <<>>, 0, web, delay)

\* The builds: up to MaxParts products, no product twice.
Builds ==
    {b \in UNION {[1..n -> Products] : n \in 0..MaxParts} :
        \A i, j \in 1..Len(b) : b[i] = b[j] => i = j}

\* One call of best_price for a product.
BestPrice ==
    \E product \in Products, web \in Webs, delay \in 0..MaxDelay :
        LET r == best_price(table, now, product, web, delay)
        IN  /\ r.now <= EndNow
            /\ table' = r.table
            /\ now' = r.now
            /\ last' = [op |-> "best_price", product |-> product, before |-> table,
                        outcome |-> r.outcome, ret |-> r.ret, yields |-> r.yields]
            /\ UNCHANGED sess

\* One call of report_build for a build.
ReportBuild ==
    \E parts \in Builds, web \in Webs, delay \in 0..MaxDelay :
        LET r == report_build(table, now, parts, web, delay)
        IN  /\ r.now <= EndNow
            /\ table' = r.table
            /\ now' = r.now
            /\ last' = [op |-> "report_build", parts |-> parts, before |-> table,
                        outcome |-> r.outcome, prices |-> r.prices,
                        total |-> r.total]
            /\ UNCHANGED sess

NextBuild == Tick \/ BestPrice \/ ReportBuild

\* The session driven through products and builds.
SpecBuild == Init /\ [][NextBuild]_vars

\* ------------------------------------------------------------------ two sessions

\* Two PriceScraper objects, each with its own connection to pc_parts.db,
\* each inside get_pricing at its own place: "read" before line 73, "fetch"
\* before line 91, "write" before line 101.

SharedUrls == {UrlMicrocenter, UrlNewegg}

SharedTables == {t \in InitTables : \A i \in 1..Len(t) : t[i].url \in SharedUrls}

InitShared ==
    /\ table \in SharedTables
    /\ now = StartNow
    /\ last = NoCall
    /\ sess = [s \in Sessions |-> Idle]

\* lines 68-72: a call that gets past the None test and the domain split (a
\* call with None returns, one without a host part raises, and the session
\* is between two calls as before)
Call(s) ==
    /\ sess[s].pc = "idle"
    /\ \E url \in SharedUrls \cup {UrlNoHost, None} :
           /\ url # None
           /\ HasDomain(url)
           /\ sess' = [sess EXCEPT ![s] = [Idle EXCEPT !.pc = "read", !.url = url]]
    /\ UNCHANGED <<table, now, last>>

\* lines 73-88: the two SELECTs and the freshness test
Read(s) ==
    /\ sess[s].pc = "read"
    /\ LET row == FetchOne(table, sess[s].url)
       IN  sess' = [sess EXCEPT ![s] =
                       IF row # NoRow /\ IsFresh(now, row.time) THEN Idle
                       ELSE [@ EXCEPT !.pc = "fetch", !.outdated = (row # NoRow)]]
    /\ UNCHANGED <<table, now, last>>

\* lines 91-98: the extractor, or the unsupported branch
FetchPrice(s) ==
    /\ sess[s].pc = "fetch"
    /\ \E page \in {PageOf(750), PageEmpty} :
           sess' = [sess EXCEPT ![s] =
                       [@ EXCEPT !.pc = "write",
                                 !.price = Fetch(DomainOf(sess[s].url),
                                                 sess[s].url, page).price]]
    /\ UNCHANGED <<table, now, last>>

\* lines 101-111: the write-back.  last keeps the write, and whether it is an
\* INSERT for the URL the other session's INSERT came just before.
Write(s) ==
    /\ sess[s].pc = "write"
    /\ table' = WriteBack(table, sess[s].outdated, sess[s].url, sess[s].price, now).table
    /\ last' = [op |-> "write", session |-> s, url |-> sess[s].url,
                outdated |-> sess[s].outdated,
                second |-> /\ last.op = "write"
                           /\ last.session # s
                           /\ last.url = sess[s].url
                           /\ ~last.outdated
                           /\ ~sess[s].outdated]
    /\ sess' = [sess EXCEPT ![s] = Idle]
    /\ UNCHANGED now

NextShared ==
    \/ Tick
    \/ \E s \in Sessions : Call(s)
    \/ \E s \in Sessions : Read(s)
    \/ \E s \in Sessions : FetchPrice(s)
    \/ \E s \in Sessions : Write(s)

\* Two sessions on one table, their steps interleaved.
SpecShared == InitShared /\ [][NextShared]_vars

\* ------------------------------------------------------------------ properties

\* The rows a table holds for a URL.
Held(t, url) == {i \in 1..Len(t) : t[i].url = url}

\* The last operation was a get_pricing call that went on to the dispatch
\* of lines 91-98.
Dispatched == last.op = "get_pricing" /\ last.extractor # "none"

\* C1: a get_pricing call for a URL whose record is at most 86400 seconds old
\* (the 86400th second included) returns the stored price, calls no
\* extractor and leaves the table as it was.
C1_FreshHitServedFromTable ==
    last.op = "get_pricing" =>
        \A i \in Held(last.before, last.url) :
            last.time_now - last.before[i].time <= 86400 =>
                /\ last.outcome = "returned"
                /\ last.ret = last.before[i].price
                /\ last.extractor = "none"
                /\ table = last.before

\* C1 witness: a call served from a record exactly 86400 seconds old.
C1_Witness ==
    /\ last.op = "get_pricing"
    /\ \E i \in Held(last.before, last.url) :
           /\ last.time_now - last.before[i].time = 86400
           /\ last.ret = last.before[i].price
           /\ last.outcome = "returned"

\* C2: after get_pricing for a URL without record, the table holds a record
\* for the URL with the extracted price and the time of the call, and a
\* lookup returns it.
C2_MissInsertsRecord ==
    (Dispatched /\ Held(last.before, last.url) = {}) =>
        FetchOne(table, last.url) = Row(last.url, last.extracted, last.time)

\* C3: after get_pricing for a URL whose record is more than 86400 seconds
\* old, the URL has one record, with the extracted price and the current time.
C3_StaleOverwrittenInPlace ==
    (Dispatched /\ Held(last.before, last.url) # {}) =>
        RowsOf(table, last.url) = <<Row(last.url, last.extracted, last.time)>>

\* C4: a get_pricing call for a URL with a host part, or for no URL, ends by
\* returning a price: the stored one, the extracted one or a sentinel.
C4_CallReturnsPrice ==
    (last.op = "get_pricing" /\ (last.url = None \/ HasDomain(last.url))) =>
        /\ last.outcome = "returned"
        /\ last.ret \in RealPrices \cup {FloatMax, Inf}

\* C5: when extraction fails (element absent after the wait, or domain
\* unsupported), the sentinel is stored in the table for the URL.
C5_FailureStored ==
    (Dispatched /\ last.extracted \in {FloatMax, Inf}) =>
        \E i \in Held(table, last.url) : table[i].price = last.extracted

\* The sum of the prices that are no sentinel.
RECURSIVE SumResolved(_)
SumResolved(prices) ==
    IF prices = <<>> THEN 0
    ELSE (IF Head(prices) \in {FloatMax, Inf} THEN 0 ELSE Head(prices))
         + SumResolved(Tail(prices))

\* C6: the total of a finished report is the sum of the resolved best
\* prices; a product whose best price is a sentinel adds 0.
C6_TotalSumsResolved ==
    (last.op = "report_build" /\ last.outcome = "returned") =>
        last.total = SumResolved(last.prices)

\* C7: best_price returns the least of the prices get_pricing gives for the
\* product's links, one per link, and the sentinel when there is none.
C7_BestIsMinimum ==
    last.op = "best_price" =>
        /\ last.outcome = "returned"
        /\ Len(last.yields) = Len(last.product.links)
        /\ \A i \in 1..Len(last.yields) : last.ret <= last.yields[i]
        /\ \/ last.ret = Inf
           \/ \E i \in 1..Len(last.yields) : last.ret = last.yields[i]

\* C8: the table holds at most one record per URL, and every URL that had a
\* record before a get_pricing call has one after it.
C8_OneRecordPerUrlKept ==
    /\ \A i, j \in 1..Len(table) : table[i].url = table[j].url => i = j
    /\ last.op = "get_pricing" =>
           \A i \in 1..Len(last.before) : Held(table, last.before[i].url) # {}

\* C8 witness: get_pricing went to the write-back for a URL that had a
\* record, and the URL still has exactly one.
C8_Witness ==
    /\ Dispatched
    /\ Cardinality(Held(last.before, last.url)) = 1
    /\ Cardinality(Held(table, last.url)) = 1

\* C9: a get_pricing call never lowers the timestamp stored for a URL, and a
\* call served from the table leaves the timestamps as they were.
C9_CheckedAtNeverDecreases ==
    last.op = "get_pricing" =>
        /\ \A i \in 1..Len(last.before) : \A j \in Held(table, last.before[i].url) :
               table[j].time >= last.before[i].time
        /\ last.extractor = "none" =>
               \A i \in 1..Len(last.before) : \E j \in Held(table, last.before[i].url) :
                   table[j].time = last.before[i].time

\* C9 witness: a call for a URL whose record was stale went through the
\* write-back at a time later than the stored one.
C9_Witness ==
    /\ Dispatched
    /\ \E i \in Held(last.before, last.url) : last.time > last.before[i].time + 86400

====
